---- MODULE Spec2Model ----
(***************************************************************************)
(* Deep research orchestration of Qurio's Python backend                   *)
(* (backend-python/src/services/deep_research.py).                         *)
(*                                                                         *)
(* stream_deep_research takes the plan text of the request (or has one     *)
(* generated), parses it with parse_plan, builds a workflow from the plan, *)
(* iterates the events of stream_research_workflow, and then streams the   *)
(* final report.  The route (routes/deep_research.py) forwards each event  *)
(* to the consumer unless the consumer has disconnected.                   *)
(* stream_research_workflow translates the events of the workflow runtime  *)
(* (StepStarted, StepCompleted, ToolCallStarted, ToolCallCompleted,        *)
(* WorkflowCompleted) into caller-facing events.  The workflow runtime is  *)
(* an external library: it is modelled as the environment that delivers    *)
(* those events.  Within one step it delivers them in order; in the        *)
(* sequential workflow a step starts after the previous one has ended, in  *)
(* the parallel workflow all steps run interleaved.  A StepStarted event   *)
(* carries step_index = position of the step in the plan (0-based), which  *)
(* is what the handler's "step_number + 1" assumes.  Tool events may or    *)
(* may not carry the name of their step (the handler has a fallback for    *)
(* the latter).  A failing step either raises out of the event stream,     *)
(* or is reported by an event the handler has no branch for, after which   *)
(* the runtime goes on with the other steps or ends the stream.            *)
(*                                                                         *)
(* Strings are modelled by small values: a step output or a report chunk   *)
(* is a sequence of numbers (<<>> is the empty string, \o concatenation),  *)
(* an external tool-call id is a number, an identifier sent to the caller  *)
(* is a pair <<kind, n>>.                                                  *)
(***************************************************************************)
EXTENDS Integers, Sequences, FiniteSets, Bags, TLC

\* ------------------------------------------------------------------ bounds
MaxSteps == 2
MaxToolCalls == 2
\* steps of the plan plus tool calls and RunContent events of a run
MaxWork == 4
MaxReportChunks == 2

\* ------------------------------------------------------------ value spaces
ExtIds == {0, 1}
Urls == {"u1", "u2"}
NoId == <<"none", 0>>
NoName == <<0, "">>
Empty == <<>>

VARIABLES
    planParam,       \* params["plan"]: the plan text of the request
    planContent,     \* plan_content: the plan text that is parsed
    consumer,        \* request.is_disconnected(): connected, or gone
    plan,            \* plan_meta["plan"]: the steps of the parsed plan
    concurrent,      \* params concurrentExecution
    wf,              \* runtime: state of each workflow step
    wfOutput,        \* runtime: the output content each step ended with
    openCalls,       \* runtime: external ids of the tool calls each step has in flight
    wfEnded,         \* runtime: the event stream has ended early
    nCalls,          \* runtime: number of tool calls started so far
    active,          \* active_steps_info: ordered dict step_name -> number
    mappings,        \* step_tool_mappings: ordered dict step_name -> (original_id -> unique_id)
    ctx,             \* current_step_context
    nextUid,         \* source of fresh uuid4 values
    sourcesMap,      \* sources_map: ordered dict url -> source
    stepOutputs,     \* step_outputs
    completedCount,  \* step_completed_count
    phase,           \* position of stream_deep_research: planning, executing, reporting,
                     \* completed; planfailed (the plan generator raised), aborted (the
                     \* workflow stream raised), failed (the report raised), cancelled
                     \* (the route left the loop)
    prompt,          \* findings and source list handed to build_final_report_prompt
    reportContent,   \* report_content
    out,             \* the events yielded to the caller, in order
    eventsNamed,     \* runtime: tool events carry the name of their step
    firstTitle       \* history: the title each url was first registered with

vars == <<planParam, planContent, consumer, plan, concurrent,
                   wf, wfOutput, openCalls, wfEnded, nCalls, active, mappings, ctx,
          nextUid, sourcesMap, stepOutputs, completedCount, phase, prompt,
          reportContent, out, eventsNamed, firstTitle>>

\* --------------------------------------------------------- ordered dicts
\* A Python dict: a sequence of <<key, value>> entries in insertion order.
DictKeys(d) == [i \in 1..Len(d) |-> d[i].k]

DictHas(d, k) == \E i \in 1..Len(d) : d[i].k = k

DictGet(d, k) == d[CHOOSE i \in 1..Len(d) : d[i].k = k].v

\* del d[k]
DictDel(d, k) == SelectSeq(d, LAMBDA e : e.k # k)

\* A faulty DictSet: a key that is set again moves to the end.
DictSetMovesKey(d, k, v) == Append(DictDel(d, k), [k |-> k, v |-> v])

\* d[k] = v: a new key is appended, an existing key keeps its position.
DictSet(d, k, v) ==
    IF DictHas(d, k)
    THEN [i \in 1..Len(d) |-> IF d[i].k = k THEN [k |-> k, v |-> v] ELSE d[i]]
    ELSE Append(d, [k |-> k, v |-> v])

DictValues(d) == [i \in 1..Len(d) |-> d[i].v]

\* ------------------------------------------------------------- plan text
\* A text is a sequence of tokens: "ws" is white space, "x" a character that
\* belongs to no JSON text, "q" a string literal, "P" the key "plan" with its
\* colon, "Pq" the same key in single quotes, "S1".. the object of a plan step,
\* and the punctuation { } [ ] , stands for itself.  A parsed value is
\* represented by its canonical text; Failed stands for None and for a raised
\* exception.
StepAtom == <<"S1", "S2", "S3", "S4">>

StepAtoms == {StepAtom[i] : i \in DOMAIN StepAtom}

Failed == <<>>

\* The step object an atom stands for: {"step": i, "action": "a"}.
StepOfAtom(a) ==
    [step |-> CHOOSE i \in DOMAIN StepAtom : StepAtom[i] = a, action |-> "a",
     requires_search |-> FALSE]

\* str.strip()
RECURSIVE LStrip(_)
LStrip(t) == IF t # <<>> /\ Head(t) = "ws" THEN LStrip(Tail(t)) ELSE t

RECURSIVE RStrip(_)
RStrip(t) ==
    IF t # <<>> /\ t[Len(t)] = "ws" THEN RStrip(SubSeq(t, 1, Len(t) - 1)) ELSE t

Strip(t) == RStrip(LStrip(t))

\* White space between the tokens of a JSON text is insignificant.
NoWs(t) == SelectSeq(t, LAMBDA c : c # "ws")

\* [ step objects separated by commas ]
IsStepList(t) ==
    /\ Len(t) >= 2
    /\ t[1] = "["
    /\ t[Len(t)] = "]"
    /\ LET inner == SubSeq(t, 2, Len(t) - 1)
       IN  \/ inner = <<>>
           \/ /\ Len(inner) % 2 = 1
              /\ \A n \in 1..Len(inner) :
                     IF n % 2 = 1 THEN inner[n] \in StepAtoms ELSE inner[n] = ","

\* {}, a step object, or { "plan": value }
IsObject(t, keys) ==
    \/ t = <<"{", "}">>
    \/ Len(t) = 1 /\ t[1] \in StepAtoms
    \/ /\ Len(t) >= 4
       /\ t[1] = "{"
       /\ t[2] \in keys
       /\ t[Len(t)] = "}"
       /\ LET v == SubSeq(t, 3, Len(t) - 1) IN v = <<"q">> \/ IsStepList(v)

IsValue(t, keys) == t = <<"q">> \/ IsStepList(t) \/ IsObject(t, keys)

\* json.loads: the value of a JSON text, Failed if it raises.
JsonLoads(t) == IF IsValue(NoWs(t), {"P"}) THEN NoWs(t) ELSE Failed

\* ast.literal_eval: keys may be quoted either way.
LiteralEval(t) ==
    IF IsValue(NoWs(t), {"P", "Pq"})
    THEN [n \in 1..Len(NoWs(t)) |-> IF NoWs(t)[n] = "Pq" THEN "P" ELSE NoWs(t)[n]]
    ELSE Failed

\* json.dumps(value, indent=2)
JsonDumps(v) ==
    IF Len(v) <= 2 THEN v
    ELSE [n \in 1..(2 * Len(v) - 1) |-> IF n % 2 = 1 THEN v[(n + 1) \div 2] ELSE "ws"]

\* The tokens in which a "{", a "}", a "[", a "]" occurs.
OpensObject == {"{"} \cup StepAtoms

ClosesObject == {"}"} \cup StepAtoms

OpensArray == {"["}

ClosesArray == {"]"}

\* str.find / str.rfind of a character, by the tokens it occurs in; 0 stands for -1.
Find(t, tokens) ==
    IF \E n \in DOMAIN t : t[n] \in tokens
    THEN CHOOSE n \in DOMAIN t : t[n] \in tokens /\ \A m \in 1..(n - 1) : t[m] \notin tokens
    ELSE 0

RFind(t, tokens) ==
    IF \E n \in DOMAIN t : t[n] \in tokens
    THEN CHOOSE n \in DOMAIN t : t[n] \in tokens /\ \A m \in (n + 1)..Len(t) : t[m] \notin tokens
    ELSE 0

\* json.loads of the substring from the first opening to the last closing character.
LoadsBetween(t, opens, closes) ==
    LET start == Find(t, opens)
        end == RFind(t, closes)
    IN  IF start # 0 /\ end # 0 /\ (end > start \/ (end = start /\ t[start] \in StepAtoms))
        THEN JsonLoads(SubSeq(t, start, end))
        ELSE Failed

\* safe_json_parse
SafeJsonParse(text) ==
    LET stripped == Strip(text)
        whole == JsonLoads(stripped)
        object == LoadsBetween(stripped, OpensObject, ClosesObject)
        array == LoadsBetween(stripped, OpensArray, ClosesArray)
        literal == IF stripped[1] \in OpensObject \cup OpensArray
                   THEN LiteralEval(stripped) ELSE Failed
    IN  IF stripped = <<>> THEN Failed
        ELSE IF whole # Failed THEN whole
        ELSE IF object # Failed THEN object
        ELSE IF array # Failed THEN array
        ELSE IF literal # Failed /\ literal # <<"q">> THEN literal
        ELSE Failed

\* isinstance(parsed, dict)
IsDict(v) == v # Failed /\ v[1] \in OpensObject

\* isinstance(parsed.get("plan"), list)
HasPlanList(v) == Len(v) >= 4 /\ v[2] = "P" /\ v[3] = "["

\* parsed["plan"]
PlanItems(v) ==
    LET atoms == SelectSeq(v, LAMBDA c : c \in StepAtoms)
    IN  [n \in 1..Len(atoms) |-> StepOfAtom(atoms[n])]

\* The plan of the dict parse_plan returns when the text gives none.
FallbackPlan == <<[step |-> 1, action |-> "summarize", requires_search |-> TRUE]>>

\* parse_plan(plan_text)["plan"]
ParsePlan(text) ==
    LET parsed == SafeJsonParse(text)
    IN  IF IsDict(parsed) /\ HasPlanList(parsed) THEN PlanItems(parsed) ELSE FallbackPlan

\* generate_research_plan: the completion's content, re-serialised if it parses.
GenerateResearchPlan(completion) ==
    LET content == Strip(completion)
        parsed == SafeJsonParse(content)
    IN  IF parsed # Failed THEN JsonDumps(parsed) ELSE content

\* not plan_content or not str(plan_content).strip()
IsBlank(text) == Strip(text) = <<>>

\* ----------------------------------------------------------------- plan
TotalSteps == Len(plan)

\* f"Step {step_number}: {action}"
StepName(i) == <<plan[i].step, plan[i].action>>

\* The workflow holds one Parallel of all steps, otherwise one step after another.
ParallelWorkflow == concurrent /\ Len(plan) > 1

\* ---------------------------------------------------------------- events
\* An event of the stream.  origin and ext are not fields of the program's event:
\* they record the plan step whose runtime event produced it (0: none) and, for a
\* tool event, the external id of the runtime's tool call (NoExt, a value outside
\* ExtIds: none).
NoExt == Cardinality(ExtIds)

Event(type, step, status, id, content, origin) ==
    [type |-> type, step |-> step, total |-> TotalSteps, status |-> status,
     id |-> id, content |-> content, sources |-> Empty, error |-> "",
     output |-> Empty, origin |-> origin, ext |-> NoExt]

ResearchStepEvent(step, status, origin) ==
    Event("research_step", step, status, NoId, Empty, origin)

StepOutputEvent(step, content, origin) ==
    Event("step_output", step, "", NoId, content, origin)

StepContentEvent(step, content, origin) ==
    Event("step_content", step, "", NoId, content, origin)

ToolCallEvent(id, step, origin, ext) ==
    [Event("tool_call", step, "", id, Empty, origin) EXCEPT !.ext = ext]

ToolResultEvent(id, status, output, error, step, origin, ext) ==
    [Event("tool_result", step, status, id, Empty, origin)
         EXCEPT !.output = output, !.error = error, !.ext = ext]

WorkflowCompletedEvent == Event("workflow_completed", 0, "", NoId, Empty, 0)

TextEvent(content) == Event("text", 0, "", NoId, content, 0)

DoneEvent(content, sources) ==
    [Event("done", 0, "", NoId, content, 0) EXCEPT !.sources = sources]

\* ------------------------------------------------ the route and the loop
\* A faulty IsDisconnected: the route never looks at the connection.
IsDisconnectedIgnored == FALSE

\* request.is_disconnected()
IsDisconnected == consumer = "gone"

\* event_generator: an event of stream_deep_research is forwarded to the consumer
\* unless the consumer is gone; then the route leaves its loop and the generators
\* stay suspended at their yield.
RouteYield(st, ev) ==
    IF IsDisconnected THEN [st EXCEPT !.cut = TRUE] ELSE [st EXCEPT !.out = Append(@, ev)]

\* A faulty DispatchOne: workflow_completed is forwarded like any other event and
\* the loop goes on.
DispatchOneForwardsCompleted(st, ev) ==
    IF st.broke \/ st.cut THEN st
    ELSE IF ev.type = "research_step" /\ ev.status = "done"
    THEN RouteYield([st EXCEPT !.completedCount = @ + 1], ev)
    ELSE IF ev.type = "step_output"
    THEN IF ev.content # Empty
         THEN [st EXCEPT !.stepOutputs =
                   Append(@, [step |-> ev.step, content |-> ev.content])]
         ELSE st
    ELSE RouteYield(st, ev)

\* One iteration of the loop over stream_research_workflow's events.
\* st = [out, stepOutputs, completedCount, broke, cut]
DispatchOne(st, ev) ==
    IF st.broke \/ st.cut THEN st
    ELSE IF ev.type = "research_step" /\ ev.status = "done"
    THEN RouteYield([st EXCEPT !.completedCount = @ + 1], ev)
    ELSE IF ev.type = "step_output"
    THEN IF ev.content # Empty
         THEN [st EXCEPT !.stepOutputs =
                   Append(@, [step |-> ev.step, content |-> ev.content])]
         ELSE st
    ELSE IF ev.type = "workflow_completed"
    THEN [st EXCEPT !.broke = TRUE]
    ELSE RouteYield(st, ev)

RECURSIVE Dispatch(_, _)
Dispatch(st, evs) ==
    IF evs = Empty THEN st ELSE Dispatch(DispatchOne(st, Head(evs)), Tail(evs))

LoopState == [out |-> out, stepOutputs |-> stepOutputs,
              completedCount |-> completedCount, broke |-> FALSE, cut |-> FALSE]

\* The route has left its loop while the handler was yielding evs.
Cut(evs) == Dispatch(LoopState, evs).cut

\* The handler yields evs; the loop consumes them and the route forwards them.
Yield(evs) ==
    LET st == Dispatch(LoopState, evs)
    IN  /\ out' = st.out
        /\ stepOutputs' = st.stepOutputs
        /\ completedCount' = st.completedCount
        /\ phase' = IF st.cut THEN "cancelled" ELSE phase

\* ------------------------------------------------------------------ Init
PlanOf(n) == [i \in 1..n |-> [step |-> i, action |-> "a", requires_search |-> FALSE]]

Plans == { PlanOf(n) : n \in 1..MaxSteps }

\* The JSON text of a plan: {"plan": [S1, ..., Sn]}
RECURSIVE StepListText(_)
StepListText(n) ==
    IF n = 0 THEN <<>>
    ELSE IF n = 1 THEN <<StepAtom[1]>>
    ELSE StepListText(n - 1) \o <<",", StepAtom[n]>>

PlanText(p) == <<"{", "P", "[">> \o StepListText(Len(p)) \o <<"]", "}">>

InitFor(texts) ==
    /\ planParam \in texts
    /\ planContent = planParam
    /\ consumer = "connected"
    /\ plan = Empty
    /\ concurrent \in BOOLEAN
    /\ wf = Empty
    /\ wfOutput = Empty
    /\ openCalls = Empty
    /\ wfEnded = FALSE
    /\ nCalls = 0
    /\ active = Empty
    /\ mappings = Empty
    /\ ctx = [number |-> 0, title |-> NoName]
    /\ nextUid = 1
    /\ sourcesMap = Empty
    /\ stepOutputs = Empty
    /\ completedCount = 0
    /\ phase = "planning"
    /\ prompt = [findings |-> Empty, sources |-> Empty]
    /\ reportContent = Empty
    /\ out = Empty
    /\ firstTitle = [u \in Urls |-> ""]
    /\ eventsNamed \in BOOLEAN

Init == InitFor({PlanText(p) : p \in Plans})

\* A plan of one more step, run with fewer tool calls.
InitWide == InitFor({PlanText(PlanOf(MaxSteps + 1))}) /\ eventsNamed

\* What the completion of the plan generator can be: a text, or an error event.
GeneratedTexts ==
    { <<"x">>,
      <<"{", "P", "[", "]", "}">>,
      <<"ws", "{", "P", "[", "S1", "]", "}">>,
      <<"x", "{", "P", "[", "S1", "]", "}", "x">> }

PlannerOutcomes ==
    {[failed |-> TRUE, text |-> <<>>]} \cup {[failed |-> FALSE, text |-> t] : t \in GeneratedTexts}

\* stream_deep_research up to the loop: the plan is generated if the request has
\* none, parsed, and the workflow is built from it.
AcquirePlan(outcome) ==
    /\ phase = "planning"
    /\ IF IsBlank(planParam) /\ outcome.failed
       THEN /\ phase' = "planfailed"
            /\ UNCHANGED <<planContent, plan, wf, wfOutput, openCalls>>
       ELSE LET content == IF IsBlank(planParam) THEN GenerateResearchPlan(outcome.text)
                           ELSE planParam
                steps == ParsePlan(content)
            IN  /\ planContent' = content
                /\ plan' = steps
                /\ wf' = [i \in 1..Len(steps) |-> "pending"]
                /\ wfOutput' = [i \in 1..Len(steps) |-> Empty]
                /\ openCalls' = [i \in 1..Len(steps) |-> {}]
                /\ phase' = "executing"
    /\ UNCHANGED <<planParam, consumer, concurrent, wfEnded, nCalls, active, mappings, ctx,
                   nextUid, sourcesMap, stepOutputs, completedCount, prompt,
                   reportContent, out, firstTitle, eventsNamed>>

Steps == 1..Len(plan)

Ended(i) == wf[i] \in {"completed", "failed"}

\* A faulty Streaming: the workflow's events are still consumed while the report
\* is streamed.
StreamingWhileReporting == phase \in {"executing", "reporting"}

Streaming == phase = "executing" /\ ~wfEnded

\* A faulty CtxNumberOr1: the number of the step context as it is, also when no
\* step has set it.
CtxNumberUnset == ctx.number

\* current_step_context["number"] or 1
CtxNumberOr1 == IF ctx.number # 0 THEN ctx.number ELSE 1

\* ----------------------------------- stream_research_workflow: StepStarted
\* The runtime starts step i and delivers StepStarted(step_name, step_index = i - 1).
StepStarted(i) ==
    /\ Streaming
    /\ wf[i] = "pending"
    /\ IF ParallelWorkflow THEN TRUE ELSE \A j \in 1..(i - 1) : Ended(j)
    /\ wf' = [wf EXCEPT ![i] = "running"]
    /\ LET name == StepName(i)
           active1 == DictSet(active, name, [number |-> (i - 1) + 1, content |-> Empty])
       IN  /\ active' = active1
           /\ ctx' = [number |-> (i - 1) + 1, title |-> name]
           /\ Yield(<<ResearchStepEvent(DictGet(active1, name).number, "running", i)>>)
    /\ UNCHANGED <<planParam, planContent, consumer, plan, concurrent,
                   wfOutput, openCalls, wfEnded, nCalls, mappings, nextUid,
                   sourcesMap, prompt, reportContent, firstTitle, eventsNamed>>

\* The runtime starts step i and delivers StepStarted(step_name) without a
\* step_index: the step is not registered and the step context stays as it is.
StepStartedNoIndex(i) ==
    /\ Streaming
    /\ wf[i] = "pending"
    /\ IF ParallelWorkflow THEN TRUE ELSE \A j \in 1..(i - 1) : Ended(j)
    /\ wf' = [wf EXCEPT ![i] = "running"]
    /\ LET name == StepName(i)
           stepDisplayNum == IF DictHas(active, name) THEN DictGet(active, name).number
                             ELSE 1
       IN  Yield(<<ResearchStepEvent(stepDisplayNum, "running", i)>>)
    /\ UNCHANGED <<planParam, planContent, consumer, plan, concurrent,
                   wfOutput, openCalls, wfEnded, nCalls, active, mappings, ctx, nextUid,
                   sourcesMap, prompt, reportContent, firstTitle, eventsNamed>>

\* --------------------------------- stream_research_workflow: StepCompleted
\* The output a step can end with: nothing, or its finding.
StepResults(i) == {Empty, <<i>>}

\* The runtime ends step i and delivers StepCompleted(step_name, output).
StepCompleted(i, content) ==
    /\ Streaming
    /\ wf[i] = "running"
    /\ wf' = [wf EXCEPT ![i] = "completed"]
    /\ wfOutput' = [wfOutput EXCEPT ![i] = content]
    /\ LET name == StepName(i)
           stepNum == IF DictHas(active, name) THEN DictGet(active, name).number
                      ELSE CtxNumberOr1
           buffer == IF DictHas(active, name) THEN DictGet(active, name).content
                     ELSE Empty
           chunks == [n \in 1..Len(buffer) |-> StepContentEvent(stepNum, buffer[n], i)]
           done == <<ResearchStepEvent(stepNum, "done", i)>>
           output == IF content # Empty THEN <<StepOutputEvent(stepNum, content, i)>>
                     ELSE Empty
       IN  /\ Yield(chunks \o done \o output)
           /\ active' = IF Cut(chunks \o done \o output) THEN active
                         ELSE DictDel(active, name)
    /\ UNCHANGED <<planParam, planContent, consumer, plan, concurrent,
                   openCalls, wfEnded, nCalls, mappings, ctx, nextUid,
                   sourcesMap, prompt, reportContent, firstTitle, eventsNamed>>

\* ------------------------------------ stream_research_workflow: RunContent
\* The RunContent events the handler has taken so far: the chunks still buffered
\* and those delivered as step_content.
RECURSIVE Buffered(_)
Buffered(d) == IF d = Empty THEN 0 ELSE Len(Head(d).v.content) + Buffered(Tail(d))

\* The agent of step i emits text; the runtime delivers RunContent, which names no
\* step: the text is appended to the buffer of the latest active step.
RunContent(i) ==
    /\ Streaming
    /\ wf[i] = "running"
    /\ Len(plan) + nCalls + Buffered(active)
           + Cardinality({n \in DOMAIN out : out[n].type = "step_content"}) < MaxWork
    /\ active # Empty
    /\ active' = [active EXCEPT ![Len(active)].v.content = Append(@, <<i>>)]
    /\ UNCHANGED <<planParam, planContent, consumer, plan, concurrent, wf, wfOutput,
                   openCalls, wfEnded, nCalls, mappings, ctx, nextUid, sourcesMap,
                   stepOutputs, completedCount, phase, prompt, reportContent, out,
                   firstTitle, eventsNamed>>

\* ------------------------------- stream_research_workflow: ToolCallStarted
NoMapping == [e \in ExtIds |-> NoId]

\* step_tool_mappings.get(name, {})
MappingOf(maps, name) == IF DictHas(maps, name) THEN DictGet(maps, name) ELSE NoMapping

\* The step_name attribute of a tool event of step i.
EventStepName(i, named) == IF named THEN StepName(i) ELSE NoName

\* A faulty TargetStep: the fallback is the oldest active step.
TargetStepOldest(evName) ==
    IF evName # NoName /\ DictHas(active, evName) THEN evName
    ELSE IF Len(active) > 0 THEN active[1].k
    ELSE NoName

\* The step a started tool call is attributed to: the step the event names if it
\* is active, otherwise the most recently registered active step.
TargetStep(evName) ==
    IF evName # NoName /\ DictHas(active, evName) THEN evName
    ELSE IF Len(active) > 0 THEN active[Len(active)].k
    ELSE NoName

\* Step i starts a tool call with external id ext; the runtime delivers ToolCallStarted.
ToolCallStarted(i, ext) ==
    /\ Streaming
    /\ wf[i] = "running"
    /\ nCalls < MaxToolCalls
    /\ Len(plan) + nCalls < MaxWork
    /\ ext \notin openCalls[i]
    /\ ext <= nCalls
    /\ nCalls' = nCalls + 1
    /\ openCalls' = [openCalls EXCEPT ![i] = @ \cup {ext}]
    /\ LET uniqueId == <<"uid", nextUid>>
           target == TargetStep(EventStepName(i, eventsNamed))
           stepNum == IF target # NoName THEN DictGet(active, target).number
                      ELSE CtxNumberOr1
       IN  /\ nextUid' = nextUid + 1
           /\ mappings' = IF target # NoName
                          THEN DictSet(mappings, target,
                                       [MappingOf(mappings, target) EXCEPT ![ext] = uniqueId])
                          ELSE mappings
           /\ Yield(<<ToolCallEvent(uniqueId, stepNum, i, ext)>>)
    /\ UNCHANGED <<planParam, planContent, consumer, plan, concurrent,
                   wfOutput, wf, wfEnded, active, ctx, sourcesMap,
                   prompt, reportContent, firstTitle, eventsNamed>>

\* ----------------------------- stream_research_workflow: ToolCallCompleted
\* Scoped lookup of the unique id: in the mapping of the step the event names,
\* otherwise in all mappings from the most recently created one backwards.
\* Returns [id, found].
\* A faulty ScanMappings: the mappings are scanned from the oldest one forwards.
ScanMappingsOldestFirst(maps, n, ext) ==
    LET holders == {m \in 1..n : maps[m].v[ext] # NoId}
    IN  IF holders = {} THEN [id |-> NoId, found |-> NoName]
        ELSE LET m == CHOOSE h \in holders : \A g \in holders : h <= g
             IN  [id |-> maps[m].v[ext], found |-> maps[m].k]

RECURSIVE ScanMappings(_, _, _)
ScanMappings(maps, n, ext) ==
    IF n = 0 THEN [id |-> NoId, found |-> NoName]
    ELSE IF maps[n].v[ext] # NoId THEN [id |-> maps[n].v[ext], found |-> maps[n].k]
    ELSE ScanMappings(maps, n - 1, ext)

ResolveToolId(evName, ext) ==
    IF evName # NoName /\ DictHas(mappings, evName)
    THEN [id |-> DictGet(mappings, evName)[ext], found |-> evName]
    ELSE ScanMappings(mappings, Len(mappings), ext)

\* del step_tool_mappings[found][original_id]
ForgetMapping(maps, found, ext) ==
    IF found # NoName /\ DictHas(maps, found)
    THEN DictSet(maps, found, [DictGet(maps, found) EXCEPT ![ext] = NoId])
    ELSE maps

\* A source dict of a tool result; "" is an absent field.
Source(url, uri, title) == [url |-> url, uri |-> uri, title |-> title]

\* source.get("url") or source.get("uri")
UrlOrUri(src) == IF src.url # "" THEN src.url ELSE src.uri

\* sources_map[url] = source for every source that has a key.
RECURSIVE RegisterAll(_, _, _)
RegisterAll(map, list, byUriOnly) ==
    IF list = Empty THEN map
    ELSE LET src == Head(list)
             key == IF byUriOnly THEN src.uri ELSE UrlOrUri(src)
         IN  RegisterAll(IF key # "" THEN DictSet(map, key, src) ELSE map,
                         Tail(list), byUriOnly)

\* Source extraction: the "results" list if it is non-empty, else the "sources" list.
ExtractSources(map, result) ==
    IF result.results # Empty THEN RegisterAll(map, result.results, FALSE)
    ELSE IF result.sources # Empty THEN RegisterAll(map, result.sources, TRUE)
    ELSE map

NoResult == [results |-> Empty, sources |-> Empty]

\* What a tool call can end with: its result dict and whether it failed.
ToolOutcomes ==
    { [result |-> NoResult, failed |-> FALSE],
      [result |-> NoResult, failed |-> TRUE],
      [result |-> [results |-> <<Source("u1", "", "t1"), Source("u2", "", "t1")>>,
                   sources |-> Empty], failed |-> FALSE],
      [result |-> [results |-> <<Source("u1", "", "t2")>>, sources |-> Empty],
       failed |-> FALSE] }

\* History: the title each key is first registered with.
RECURSIVE NoteFirst(_, _, _)
NoteFirst(first, list, byUriOnly) ==
    IF list = Empty THEN first
    ELSE LET src == Head(list)
             key == IF byUriOnly THEN src.uri ELSE UrlOrUri(src)
         IN  NoteFirst(IF key # "" /\ first[key] = ""
                       THEN [first EXCEPT ![key] = src.title] ELSE first,
                       Tail(list), byUriOnly)

\* unique_id = original_id or f"fallback_{uuid}": the external id itself when the
\* tool call has one, a minted id only when it has none.
FallbackId(ext) == IF ext \in ExtIds THEN <<"ext", ext>> ELSE <<"fallback", nextUid>>

\* A faulty ToolStatus: the error of the tool call is not looked at.
ToolStatusAlwaysDone(failed) == "done"

\* status = "error" if tool_error else "done"
ToolStatus(failed) == IF failed THEN "error" ELSE "done"

\* str(tool_error) if tool_error else None; "" is None.
ToolErrorText(failed) == IF failed THEN "True" ELSE ""

\* output_value: the result of the tool call, unless it is empty or the call
\* failed; <<>> is None.
ToolOutput(outcome) ==
    IF outcome.result # NoResult /\ ~outcome.failed THEN <<outcome.result>> ELSE Empty

\* A tool call of step i completes; the runtime delivers ToolCallCompleted.
ToolCallCompleted(i, ext, outcome) ==
    /\ Streaming
    /\ wf[i] = "running"
    /\ ext \in openCalls[i]
    /\ openCalls' = [openCalls EXCEPT ![i] = @ \ {ext}]
    /\ LET res == ResolveToolId(EventStepName(i, eventsNamed), ext)
           uniqueId == IF res.id # NoId THEN res.id ELSE FallbackId(ext)
           stepNum == IF res.found # NoName /\ DictHas(active, res.found)
                      THEN DictGet(active, res.found).number
                      ELSE CtxNumberOr1
           status == ToolStatus(outcome.failed)
           error == ToolErrorText(outcome.failed)
           output == ToolOutput(outcome)
       IN  /\ mappings' = ForgetMapping(mappings, res.found, ext)
           /\ sourcesMap' = ExtractSources(sourcesMap, outcome.result)
           /\ firstTitle' = IF outcome.result.results # Empty
                            THEN NoteFirst(firstTitle, outcome.result.results, FALSE)
                            ELSE NoteFirst(firstTitle, outcome.result.sources, TRUE)
           /\ Yield(<<ToolResultEvent(uniqueId, status, output, error, stepNum, i, ext)>>)
    /\ UNCHANGED <<planParam, planContent, consumer, plan, concurrent,
                   wfOutput, wf, wfEnded, nCalls, active, ctx, nextUid,
                   prompt, reportContent, eventsNamed>>

\* ------------------------------------------------------- a failing step
\* What the handler can observe of a failing step: the stream raises; or an event
\* it has no branch for arrives and the runtime either ends the stream or goes on.
FailureModes == {"raise", "end", "continue"}

StepFailed(i, how) ==
    /\ Streaming
    /\ wf[i] = "running"
    /\ how \in FailureModes
    /\ wf' = [wf EXCEPT ![i] = "failed"]
    /\ phase' = IF how = "raise" THEN "aborted" ELSE phase
    /\ wfEnded' = (how = "end")
    /\ UNCHANGED <<planParam, planContent, consumer, plan, concurrent,
                   wfOutput, openCalls, nCalls, active, mappings, ctx, nextUid,
                   sourcesMap, stepOutputs, completedCount, prompt, reportContent, out,
                   firstTitle, eventsNamed>>

\* ------------------------------------------------- report: the findings
\* list.sort(key=step): a stable sort.
RECURSIVE InsertByStep(_, _)
InsertByStep(sorted, x) ==
    IF sorted = Empty THEN <<x>>
    ELSE IF Head(sorted).step <= x.step THEN <<Head(sorted)>> \o InsertByStep(Tail(sorted), x)
    ELSE <<x>> \o sorted

\* A faulty SortByStep: the outputs stay in completion order.
SortByStepSkipped(list) == list

RECURSIVE SortByStep(_)
SortByStep(list) ==
    IF list = Empty THEN Empty
    ELSE InsertByStep(SortByStep(SubSeq(list, 1, Len(list) - 1)), list[Len(list)])

\* "No step outputs available"
NoOutputsFinding == <<0>>

\* The findings of the report: the contents in the order of step_outputs.sort(),
\* or the placeholder.
FindingsForReport(outputs) ==
    LET sorted == SortByStep(outputs)
        contents == [n \in 1..Len(sorted) |-> sorted[n].content]
    IN  IF contents # Empty THEN contents ELSE <<NoOutputsFinding>>

\* A faulty BuildSourcesList: the newest source is listed first.
BuildSourcesListNewestFirst(map) ==
    LET sources == DictValues(map)
        last == Len(sources)
    IN  [idx \in 1..last |->
            [idx |-> idx,
             title |-> sources[last + 1 - idx].title,
             url |-> UrlOrUri(sources[last + 1 - idx])]]

\* build_sources_list: line idx is "[idx] title url".
BuildSourcesList(map) ==
    LET sources == DictValues(map)
    IN  [idx \in 1..Len(sources) |->
            [idx |-> idx,
             title |-> IF sources[idx].title # "" THEN sources[idx].title
                       ELSE IF UrlOrUri(sources[idx]) # "" THEN UrlOrUri(sources[idx])
                       ELSE "Source",
             url |-> UrlOrUri(sources[idx])]]

\* The event stream ends (WorkflowCompleted, or the stream is exhausted): the
\* handler yields workflow_completed, the loop breaks, the report request is built.
WorkflowCompleted ==
    /\ phase = "executing"
    /\ IF wfEnded THEN TRUE ELSE \A i \in Steps : Ended(i)
    /\ LET st == Dispatch(LoopState, <<WorkflowCompletedEvent>>)
       IN  /\ out' = st.out
           /\ completedCount' = st.completedCount
           /\ stepOutputs' = SortByStep(st.stepOutputs)
           /\ prompt' = [findings |-> FindingsForReport(st.stepOutputs),
                         sources |-> BuildSourcesList(sourcesMap)]
    /\ phase' = "reporting"
    /\ UNCHANGED <<planParam, planContent, consumer, plan, concurrent,
                   wfOutput, wf, openCalls, wfEnded, nCalls, active, mappings,
                   ctx, nextUid, sourcesMap, reportContent, firstTitle, eventsNamed>>

\* ------------------------------------------------ report: the streaming
\* The n-th chunk of the report text.
Chunk(n) == <<n>>

\* A faulty Accumulate: the new chunk is put in front.
AccumulateInFront(report, content) == content \o report

\* report_content += content
Accumulate(report, content) == report \o content

\* service.stream_chat yields a text event.
ReportText ==
    /\ phase = "reporting"
    /\ Len(reportContent) < MaxReportChunks
    /\ LET content == Chunk(Len(reportContent) + 1)
           st == RouteYield(LoopState, TextEvent(content))
       IN  /\ reportContent' = Accumulate(reportContent, content)
           /\ out' = st.out
           /\ phase' = IF st.cut THEN "cancelled" ELSE phase
    /\ UNCHANGED <<planParam, planContent, consumer, plan, concurrent,
                   wfOutput, wf,
                   openCalls, wfEnded, nCalls, active, mappings, ctx, nextUid, sourcesMap,
                   stepOutputs, completedCount, prompt, firstTitle, eventsNamed>>

\* A faulty ReportError: the error is swallowed and the done event is sent.
ReportErrorSwallowed ==
    /\ phase = "reporting"
    /\ phase' = "failed"
    /\ out' = Append(out, DoneEvent(reportContent, DictValues(sourcesMap)))
    /\ UNCHANGED <<planParam, planContent, consumer, plan, concurrent, wfOutput, wf,
                   openCalls, wfEnded, nCalls, active, mappings, ctx, nextUid, sourcesMap,
                   stepOutputs, completedCount, prompt, reportContent, eventsNamed,
                   firstTitle>>

\* service.stream_chat yields an error event: RuntimeError is raised, and neither
\* stream_deep_research nor the route catches it.
ReportError ==
    /\ phase = "reporting"
    /\ phase' = "failed"
    /\ UNCHANGED <<planParam, planContent, consumer, plan, concurrent,
                   wfOutput, wf, openCalls, wfEnded, nCalls, active, mappings,
                   ctx, nextUid, sourcesMap, stepOutputs, completedCount, prompt,
                   reportContent, out, eventsNamed, firstTitle>>

\* service.stream_chat ends: the done event.
ReportDone ==
    /\ phase = "reporting"
    /\ LET st == RouteYield(LoopState, DoneEvent(reportContent, DictValues(sourcesMap)))
       IN  /\ out' = st.out
           /\ phase' = IF st.cut THEN "cancelled" ELSE "completed"
    /\ UNCHANGED <<planParam, planContent, consumer, plan, concurrent,
                   wfOutput, wf, openCalls, wfEnded, nCalls, active, mappings,
                   ctx, nextUid, sourcesMap, stepOutputs, completedCount, prompt,
                   reportContent, firstTitle, eventsNamed>>

\* -------------------------------------------------- the consumer leaves
\* The consumer closes the connection.
Disconnect ==
    /\ consumer = "connected"
    /\ phase \in {"planning", "executing", "reporting"}
    /\ consumer' = "gone"
    /\ UNCHANGED <<planParam, planContent, plan, concurrent, wf, wfOutput, openCalls, wfEnded,
                   nCalls, active, mappings, ctx, nextUid, sourcesMap, stepOutputs,
                   completedCount, phase, prompt, reportContent, out, eventsNamed,
                   firstTitle>>

\* After the route has left its loop nothing resumes the generators: a step the
\* runtime still has in flight ends without any handler seeing its events.
StepEndsUnobserved(i, content) ==
    /\ phase = "cancelled"
    /\ wf[i] = "running"
    /\ wf' = [wf EXCEPT ![i] = "completed"]
    /\ wfOutput' = [wfOutput EXCEPT ![i] = content]
    /\ UNCHANGED <<planParam, planContent, consumer, plan, concurrent, openCalls, wfEnded,
                   nCalls, active, mappings, ctx, nextUid, sourcesMap, stepOutputs,
                   completedCount, phase, prompt, reportContent, out, eventsNamed,
                   firstTitle>>

\* After the loop has left the stream at workflow_completed nothing iterates
\* stream_research_workflow: what the runtime still emits reaches no handler.
StepEndsAfterBreak(i, content) ==
    /\ phase \in {"reporting", "completed", "failed"}
    /\ wf[i] = "running"
    /\ wf' = [wf EXCEPT ![i] = "completed"]
    /\ wfOutput' = [wfOutput EXCEPT ![i] = content]
    /\ UNCHANGED <<planParam, planContent, consumer, plan, concurrent, openCalls, wfEnded,
                   nCalls, active, mappings, ctx, nextUid, sourcesMap, stepOutputs,
                   completedCount, phase, prompt, reportContent, out, eventsNamed,
                   firstTitle>>

\* ------------------------------------------------------------------ Next
Next ==
    \/ \E outcome \in PlannerOutcomes : AcquirePlan(outcome)
    \/ \E i \in Steps : StepStarted(i)
    \/ \E i \in Steps : \E content \in StepResults(i) : StepCompleted(i, content)
    \/ \E i \in Steps : \E how \in FailureModes : StepFailed(i, how)
    \/ \E i \in Steps : \E ext \in ExtIds : ToolCallStarted(i, ext)
    \/ \E i \in Steps : \E ext \in ExtIds : \E outcome \in ToolOutcomes :
           ToolCallCompleted(i, ext, outcome)
    \/ WorkflowCompleted
    \/ ReportText
    \/ ReportError
    \/ ReportDone

Spec == Init /\ [][Next]_vars

SpecWide == InitWide /\ [][Next]_vars

\* Runs in which the consumer may leave.
NextRoute ==
    \/ Next
    \/ Disconnect
    \/ \E i \in Steps : \E content \in StepResults(i) : StepEndsUnobserved(i, content)

InitRoute == Init /\ eventsNamed

SpecRoute == InitRoute /\ [][NextRoute]_vars

\* Tool results that come with a "sources" list.
SourceListOutcomes ==
    { [result |-> [results |-> Empty,
                   sources |-> <<Source("", "u1", "t1"), Source("u2", "", "t1")>>],
       failed |-> FALSE],
      [result |-> [results |-> <<Source("", "u2", "t2")>>,
                   sources |-> <<Source("", "u1", "t2")>>],
       failed |-> FALSE] }

\* Runs of a one-step plan whose tool results have a "results" or a "sources" list.
NextSources ==
    \/ Next
    \/ \E i \in Steps : \E ext \in ExtIds : \E outcome \in SourceListOutcomes :
           ToolCallCompleted(i, ext, outcome)

InitSources == InitFor({PlanText(PlanOf(1))}) /\ ~concurrent /\ eventsNamed

SpecSources == InitSources /\ [][NextSources]_vars

\* A plan whose two steps have the same number and action, hence the same name.
SameNamePlanText == <<"{", "P", "[", StepAtom[1], ",", StepAtom[1], "]", "}">>

\* A tool call that ends without a result and without an error.
PlainOutcome == [result |-> NoResult, failed |-> FALSE]

\* Runs of two-step plans, also one with equal step names, in which a StepStarted
\* may come without a step_index; the tool calls end plainly and the report comes
\* in one piece.
NextLoose ==
    \/ \E outcome \in PlannerOutcomes : AcquirePlan(outcome)
    \/ \E i \in Steps : StepStarted(i)
    \/ \E i \in Steps : StepStartedNoIndex(i)
    \/ \E i \in Steps : \E content \in StepResults(i) : StepCompleted(i, content)
    \/ \E i \in Steps : \E how \in FailureModes : StepFailed(i, how)
    \/ \E i \in Steps : \E ext \in ExtIds : ToolCallStarted(i, ext)
    \/ \E i \in Steps : \E ext \in ExtIds : ToolCallCompleted(i, ext, PlainOutcome)
    \/ WorkflowCompleted
    \/ ReportDone

InitLoose == InitFor({PlanText(PlanOf(MaxSteps)), SameNamePlanText})

SpecLoose == InitLoose /\ [][NextLoose]_vars

\* Runs in which the agents emit text while their steps run, and in which the
\* runtime still has steps in flight when the loop leaves the stream.
NextContent ==
    \/ \E outcome \in PlannerOutcomes : AcquirePlan(outcome)
    \/ \E i \in Steps : StepStarted(i)
    \/ \E i \in Steps : RunContent(i)
    \/ \E i \in Steps : \E content \in StepResults(i) : StepCompleted(i, content)
    \/ \E i \in Steps : \E how \in FailureModes : StepFailed(i, how)
    \/ \E i \in Steps : \E ext \in ExtIds : ToolCallStarted(i, ext)
    \/ \E i \in Steps : \E ext \in ExtIds : ToolCallCompleted(i, ext, PlainOutcome)
    \/ WorkflowCompleted
    \/ \E i \in Steps : \E content \in StepResults(i) : StepEndsAfterBreak(i, content)
    \/ ReportText
    \/ ReportDone

InitContent == InitFor({PlanText(PlanOf(MaxSteps + 1))}) /\ eventsNamed

SpecContent == InitContent /\ [][NextContent]_vars

\* Sequential runs over the plan texts a request can carry.
PlanTexts ==
    { <<>>,
      <<"ws">>,
      <<"x">>,
      <<"q">>,
      <<"{", "}">>,
      <<"{", "P", "q", "}">>,
      <<"[", "S1", "]">>,
      <<"{", "P", "[", "S1">>,
      <<"{", "P", "[", "]", "}">>,
      <<"{", "Pq", "[", "]", "}">>,
      <<"{", "P", "[", "S1", "]", "}">>,
      <<"ws", "{", "P", "[", "S1", ",", "S2", "]", "}", "ws">>,
      <<"x", "{", "P", "[", "S1", "]", "}", "x">>,
      <<"{", "Pq", "[", "S1", "]", "}">>,
      <<"{", "Pq", "q", "}">> }

InitPlan == InitFor(PlanTexts) /\ ~concurrent /\ eventsNamed

SpecPlan == InitPlan /\ [][Next]_vars

\* ============================================================== claims
Sequential == ~(concurrent /\ Len(plan) > 1)

\* The workflow loop has ended and the report request has been built.
ExecutionOver == phase \in {"reporting", "completed", "failed"}

IsFinalStep(e) == e.type = "research_step" /\ e.status \in {"done", "error"}

IsToolEvent(e) == e.type \in {"tool_call", "tool_result"}

IsStepTagged(e) == e.type \in {"research_step", "tool_call", "tool_result"}

FinalStepEvents == SelectSeq(out, IsFinalStep)

CountStatus(status) ==
    Cardinality({n \in DOMAIN out : IsFinalStep(out[n]) /\ out[n].status = status})

IsPrefix(a, b) == Len(a) <= Len(b) /\ \A n \in 1..Len(a) : a[n] = b[n]

\* C1: in sequential mode a plan of N steps gives exactly N research_step events
\* with status done or error, with step values 1, 2, ..., N in that order.
C1_SequentialFinalSteps ==
    (Sequential /\ ExecutionOver) =>
        /\ Len(FinalStepEvents) = Len(plan)
        /\ \A n \in 1..Len(FinalStepEvents) : FinalStepEvents[n].step = n

\* C2: a tool_result never carries the unique id minted for a tool_call of
\* another step, whether or not the tool events name their step.
C2_NoCrossStepResolution ==
    \A p, q \in DOMAIN out :
        (out[p].type = "tool_result" /\ out[q].type = "tool_call" /\ out[p].id = out[q].id)
            => out[p].origin = out[q].origin

\* C3: a failed step is reported by a research_step event with status error for
\* that step.
C3_FailedStepReported ==
    \A i \in Steps :
        (wf[i] = "failed" /\ ExecutionOver) =>
            \E n \in DOMAIN out : /\ out[n].type = "research_step"
                                  /\ out[n].status = "error"
                                  /\ out[n].step = i

\* C4: after a step has failed the run is not aborted: it reaches the report, and
\* the findings of the report are exactly the outputs of the steps that did not fail.
C4_RunSurvivesStepFailure ==
    (\E i \in Steps : wf[i] = "failed") =>
        /\ phase # "aborted"
        /\ ExecutionOver =>
              LET outputs == {wfOutput[i] : i \in {j \in Steps : wf[j] = "completed"}}
                                 \ {Empty}
              IN  IF outputs = {} THEN prompt.findings = <<NoOutputsFinding>>
                  ELSE {prompt.findings[n] : n \in DOMAIN prompt.findings} = outputs

\* C5: in either mode the final research_step statuses are one per step, done for
\* a step that completed and error for a step that failed, so that the multiset
\* is the same for a concurrent and a sequential run with the same step outcomes.
C5_SameFinalStatuses ==
    (ExecutionOver /\ \A i \in Steps : Ended(i)) =>
        /\ CountStatus("done") = Cardinality({i \in Steps : wf[i] = "completed"})
        /\ CountStatus("error") = Cardinality({i \in Steps : wf[i] = "failed"})

\* C6: the entry reported for a url, in the source list of the report prompt and
\* in the sources of the done event, has the title the url was first registered with.
C6_FirstTitleKept ==
    /\ \A m \in DOMAIN prompt.sources :
           prompt.sources[m].title = firstTitle[prompt.sources[m].url]
    /\ \A n \in DOMAIN out :
           out[n].type = "done" =>
               \A m \in DOMAIN out[n].sources :
                   out[n].sources[m].title = firstTitle[UrlOrUri(out[n].sources[m])]

\* C7: the position of a registered url in the registry's order never changes:
\* every step leaves the urls registered so far at their positions.
C7_CitationPositionsStable ==
    [][IsPrefix(DictKeys(sourcesMap), DictKeys(sourcesMap'))]_vars

\* C7 witness: two urls are registered and the first has been registered again,
\* with another title.
C7_Witness ==
    /\ Len(sourcesMap) = 2
    /\ sourcesMap[1].v.title # firstTitle[sourcesMap[1].k]

\* C8: the findings handed to the report prompt are in ascending step order, in
\* both modes and whatever the order in which the steps completed.
C8_FindingsInStepOrder ==
    ExecutionOver =>
        \A a, b \in DOMAIN prompt.findings :
            a < b => prompt.findings[a][1] < prompt.findings[b][1]

\* C8 witness: the steps completed in the order 3, 1, 2 and the report has the
\* three findings.
C8_Witness ==
    /\ phase = "reporting"
    /\ Len(prompt.findings) = 3
    /\ \E p, q, r \in DOMAIN out : /\ p < q /\ q < r
                                   /\ IsFinalStep(out[p]) /\ out[p].origin = 3
                                   /\ IsFinalStep(out[q]) /\ out[q].origin = 1
                                   /\ IsFinalStep(out[r]) /\ out[r].origin = 2

\* C9: the events of one step keep their order: running before every tool_call
\* tagged with the step, every tool_result after the tool_call with its id, and no
\* tool event tagged with the step after the step's done/error.
C9_StepEventsOrdered ==
    \A q \in DOMAIN out :
        /\ out[q].type = "tool_call" =>
              \E p \in 1..(q - 1) : /\ out[p].type = "research_step"
                                    /\ out[p].status = "running"
                                    /\ out[p].step = out[q].step
        /\ (out[q].type = "tool_result" /\ out[q].id[1] = "uid") =>
              \E p \in 1..(q - 1) : out[p].type = "tool_call" /\ out[p].id = out[q].id
        /\ IsToolEvent(out[q]) =>
              \A p \in 1..(q - 1) : ~(IsFinalStep(out[p]) /\ out[p].step = out[q].step)

\* C10: in sequential mode the events of step i are all emitted before the first
\* event of step i + 1, and a completed step's done precedes the next step's running.
C10_SequentialStepsDoNotOverlap ==
    Sequential =>
        /\ \A p, q \in DOMAIN out :
               (p < q /\ IsStepTagged(out[p]) /\ IsStepTagged(out[q])) =>
                   /\ out[p].step <= out[q].step
                   /\ out[p].origin <= out[q].origin
        /\ \A q \in DOMAIN out :
               (/\ out[q].type = "research_step"
                /\ out[q].status = "running"
                /\ out[q].step > 1
                /\ wf[out[q].step - 1] = "completed") =>
                   \E p \in 1..(q - 1) : IsFinalStep(out[p]) /\ out[p].step = out[q].step - 1

\* C10 witness: a sequential run of two steps, each with a tool call whose events
\* do not name their step.
C10_Witness ==
    /\ Sequential
    /\ ~eventsNamed
    /\ phase = "completed"
    /\ \E p, q \in DOMAIN out : /\ out[p].type = "tool_result" /\ out[p].step = 1
                                /\ out[q].type = "tool_result" /\ out[q].step = 2

CountType(type) == Cardinality({n \in DOMAIN out : out[n].type = type})

TextEvents == SelectSeq(out, LAMBDA e : e.type = "text")

RECURSIVE ConcatContent(_)
ConcatContent(events) ==
    IF events = Empty THEN Empty ELSE Head(events).content \o ConcatContent(Tail(events))

\* C11: when the report generation has signalled an error, the caller has received
\* exactly one error event, and it is the last event of the stream.
C11_ReportErrorEvent ==
    phase = "failed" =>
        /\ CountType("error") = 1
        /\ out # Empty
        /\ out[Len(out)].type = "error"

\* C12: once the report generation has signalled an error the stream holds no done
\* event, also when text events were streamed before the error.
C12_NoDoneAfterReportError ==
    phase = "failed" => CountType("done") = 0

\* C12 witness: the report failed after text had been streamed.
C12_Witness ==
    /\ phase = "failed"
    /\ CountType("text") > 0

\* C13: a run whose report generation completes has exactly one done event, as the
\* last event of the stream, whose content is the concatenation of the contents of
\* the text events in emission order.
C13_DoneCarriesReport ==
    phase = "completed" =>
        /\ CountType("done") = 1
        /\ out[Len(out)].type = "done"
        /\ out[Len(out)].content = ConcatContent(TextEvents)

\* C13 witness: a completed run whose report came in two chunks.
C13_Witness ==
    /\ phase = "completed"
    /\ Len(TextEvents) = 2
    /\ TextEvents[1].content # TextEvents[2].content

\* The plan text gives no plan: it is missing, blank or does not parse.
NoPlanIn(text) == IsBlank(text) \/ SafeJsonParse(text) = Failed

\* C14: for every plan text the parsed plan has at least one step, and for a
\* missing or unparseable text it is the single synthetic step that requires search.
C14_PlanNeverEmpty ==
    phase \notin {"planning", "planfailed"} =>
        /\ Len(plan) > 0
        /\ NoPlanIn(planContent) => /\ plan = FallbackPlan
                                    /\ plan[1].requires_search

\* C15: for a missing, blank or unparseable plan text the run does not end with an
\* error of the planning, and a run that completes has emitted a research_step event.
C15_PlanningNeverFails ==
    NoPlanIn(planParam) =>
        /\ phase # "planfailed"
        /\ phase = "completed" => CountType("research_step") > 0

\* C16: if no step has yielded an output when the steps are over, the report
\* request is issued and its findings are the single entry "No step outputs available".
C16_PlaceholderFinding ==
    (phase \in {"aborted", "reporting", "completed", "failed"} /\ stepOutputs = Empty) =>
        /\ phase # "aborted"
        /\ prompt.findings = <<NoOutputsFinding>>

\* C17: the sources of the done event hold, for every url U that a tool result
\* listed under "results", exactly one entry, and that entry has uri = U.
C17_SourcesHaveUri ==
    \A n \in DOMAIN out :
        out[n].type = "done" =>
            /\ \A m \in DOMAIN out[n].sources : out[n].sources[m].uri # ""
            /\ \A u \in Urls :
                   firstTitle[u] # "" =>
                       Cardinality({m \in DOMAIN out[n].sources :
                                        out[n].sources[m].uri = u}) = 1

\* C18: while the consumer is gone no event is delivered, and once the route has
\* observed it nothing of the run changes any more: what the steps still in flight
\* produce reaches neither the stream nor the findings nor the sources.
C18_NothingAfterDisconnect ==
    [][/\ consumer = "gone" => out' = out
       /\ phase = "cancelled" =>
              /\ phase' = "cancelled"
              /\ <<stepOutputs, sourcesMap, prompt, reportContent>>' =
                     <<stepOutputs, sourcesMap, prompt, reportContent>>]_vars

\* C18 witness: the route has left its loop after some events were delivered, and
\* both steps of the plan have since ended with an output that appears nowhere.
C18_Witness ==
    /\ phase = "cancelled"
    /\ out # Empty
    /\ \A i \in Steps : /\ wf[i] = "completed"
                        /\ wfOutput[i] # Empty
                        /\ \A n \in DOMAIN out : ~(IsFinalStep(out[n]) /\ out[n].origin = i)
    /\ Len(plan) = 2
    /\ stepOutputs = Empty

\* C19: when a step has completed, the mapping kept under its name holds no
\* external id any more.
C19_MappingsEndWithStep ==
    \A i \in Steps :
        wf[i] = "completed" => MappingOf(mappings, StepName(i)) = NoMapping

\* The tool_call events of the same step and external id before position r.
EarlierCalls(r) ==
    {c \in 1..(r - 1) : /\ out[c].type = "tool_call"
                        /\ out[c].origin = out[r].origin
                        /\ out[c].ext = out[r].ext}

Completes(i, e) ==
    /\ e \in openCalls[i]
    /\ e \notin openCalls'[i]
    /\ Len(out') = Len(out) + 1

\* The mappings that hold external id e, as positions in creation order.
Holders(e) == {n \in DOMAIN mappings : mappings[n].v[e] # NoId}

C22_FreshFallbackId ==
    [][\A i \in Steps : \A e \in ExtIds :
          (e \in openCalls[i] /\ e \notin openCalls'[i] /\ Holders(e) = {}) =>
              /\ Len(out') = Len(out) + 1
              /\ out'[Len(out')].type = "tool_result"
              /\ out'[Len(out')].ext = e
              /\ out'[Len(out')].id[1] = "fallback"]_vars

\* C23: the tool_result of a tool call that completed with an error has status
\* error and carries the error text, any other has status done and no error text;
\* and the completion leaves the step running and the run executing.
C23_ToolErrorDoesNotFailStep ==
    [][\A i \in Steps : \A e \in ExtIds :
          Completes(i, e) =>
              LET r == out'[Len(out')]
              IN  /\ r.type = "tool_result"
                  /\ r.error # "" => r.status = "error"
                  /\ r.error = "" => r.status = "done"
                  /\ wf'[i] = "running"
                  /\ phase' = "executing"]_vars

\* A step whose tool call failed has ended with research_step done and its
\* finding is among the step outputs.
C23_Witness ==
    \E n, m \in DOMAIN out :
        /\ n < m
        /\ out[n].type = "tool_result"
        /\ out[n].status = "error"
        /\ out[n].error = "True"
        /\ out[m].type = "research_step"
        /\ out[m].status = "done"
        /\ out[m].origin = out[n].origin
        /\ \E k \in DOMAIN stepOutputs : stepOutputs[k].content = <<out[n].origin>>

\* The list sources are taken from: "results" when it is present, else "sources".
ChosenList(result) == IF result.results # Empty THEN result.results ELSE result.sources

\* The keys of a registry, as a set.
KeySet(d) == {d[n].k : n \in DOMAIN d}

\* C24: when a tool call has completed, every element of the chosen list of its
\* result that has a url or a uri is in the registry under that value, and the
\* registry holds nothing else that it did not hold before.
C24_EveryUrlOrUriRegistered ==
    [][\A i \in Steps : \A e \in ExtIds :
          (Completes(i, e) /\ out'[Len(out')].output # Empty) =>
              LET list == ChosenList(out'[Len(out')].output[1])
                  keys == {UrlOrUri(list[n]) : n \in DOMAIN list} \ {""}
              IN  /\ \A n \in DOMAIN list :
                         UrlOrUri(list[n]) # "" =>
                             /\ DictHas(sourcesMap', UrlOrUri(list[n]))
                             /\ \E m \in DOMAIN list :
                                    DictGet(sourcesMap', UrlOrUri(list[n])) = list[m]
                  /\ KeySet(sourcesMap') = KeySet(sourcesMap) \cup keys]_vars

\* The phases a run passes through, and the ways it can end early.
PhaseSteps ==
    { <<"planning", "executing">>, <<"executing", "reporting">>,
      <<"reporting", "completed">>,
      <<"planning", "planfailed">>, <<"executing", "aborted">>,
      <<"reporting", "failed">> }

\* C25: the phase only moves from planning to executing, to reporting, to
\* completed (or to an early end); while a run is executing no text or done event
\* has been delivered; every research_step, tool_call and tool_result event
\* precedes every text event; and nothing follows the done event, which a
\* completed run ends with.
C25_PhasesInOrder ==
    [][/\ phase' # phase => <<phase, phase'>> \in PhaseSteps
       /\ phase' \in {"planning", "executing"} =>
              \A n \in DOMAIN out' : out'[n].type \notin {"text", "done"}
       /\ \A n, m \in DOMAIN out' :
              (n < m /\ out'[n].type = "text") => out'[m].type \in {"text", "done"}
       /\ \A n \in DOMAIN out' : out'[n].type = "done" => n = Len(out')
       /\ phase' = "completed" => out'[Len(out')].type = "done"]_vars

\* A completed run that delivered step events, tool events and several text events.
C25_Witness ==
    /\ phase = "completed"
    /\ CountType("research_step") >= 2
    /\ CountType("tool_call") >= 1
    /\ CountType("tool_result") >= 1
    /\ CountType("text") >= 2
    /\ CountType("done") = 1

\* C26: when the run has completed, the source list of the report prompt and the
\* sources of the done event have the same length, line n of the prompt's list is
\* numbered n, and it shows the URL of the n-th entry of done.sources.
C26_PromptAndDoneSameSources ==
    phase = "completed" =>
        LET done == out[Len(out)]
        IN  /\ done.type = "done"
            /\ Len(prompt.sources) = Len(done.sources)
            /\ \A n \in DOMAIN done.sources :
                   /\ prompt.sources[n].idx = n
                   /\ prompt.sources[n].url = UrlOrUri(done.sources[n])

\* A completed run whose registry holds two sources with different URLs.
C26_Witness ==
    /\ phase = "completed"
    /\ Len(prompt.sources) = 2
    /\ prompt.sources[1].url # prompt.sources[2].url
    /\ Len(out[Len(out)].sources) = 2

\* C27: a tool_result event has the step number of the tool_call event that
\* carries the same id.
C27_ResultTaggedAsCall ==
    \A c, r \in DOMAIN out :
        (out[c].type = "tool_call" /\ out[r].type = "tool_result" /\ out[c].id = out[r].id)
            => out[r].step = out[c].step

\* C28: every research_step, tool_call and tool_result event delivered has total
\* equal to the number of steps of the plan, and a step from 1 to total.
C28_StepWithinTotal ==
    \A n \in DOMAIN out :
        out[n].type \in {"research_step", "tool_call", "tool_result"} =>
            /\ out[n].total = Len(plan)
            /\ out[n].step \in 1..out[n].total

\* A tool call and its result were delivered while no step had been registered:
\* the step that made the call had started without a step index.
C28_Witness ==
    /\ ctx.number = 0
    /\ \E c, r \in DOMAIN out : /\ c < r
                                 /\ out[c].type = "tool_call"
                                 /\ out[r].type = "tool_result"
                                 /\ out[r].ext = out[c].ext

\* The steps that have started and have not completed.
StartedNotCompleted == {i \in Steps : wf[i] \in {"running", "failed"}}

\* C29: the registry of active steps holds one entry for every step that has
\* started and not completed, under the step's name, and no other entry.
C29_ActiveIsStartedNotCompleted ==
    /\ \A i \in StartedNotCompleted : DictHas(active, StepName(i))
    /\ \A n \in DOMAIN active : \E i \in StartedNotCompleted : active[n].k = StepName(i)
    /\ Len(active) = Cardinality(StartedNotCompleted)

\* The events the loop delivers while the run is executing.
ExecutionEvents == {"research_step", "step_content", "tool_call", "tool_result"}

\* C30: no step_output and no workflow_completed event is ever delivered; while
\* the run is executing every delivered event is a research_step, step_content,
\* tool_call or tool_result event; the loop's exit at workflow_completed delivers
\* nothing; and after it only text and done events are delivered, whatever the
\* workflow still does.
C30_EngineEventsStayInside ==
    [][/\ \A n \in DOMAIN out' : out'[n].type \notin {"step_output", "workflow_completed"}
       /\ phase' = "executing" =>
              \A n \in DOMAIN out' : out'[n].type \in ExecutionEvents
       /\ (phase = "executing" /\ phase' = "reporting") => out' = out
       /\ phase \in {"reporting", "completed", "failed"} =>
              \A n \in DOMAIN out' \ DOMAIN out : out'[n].type \in {"text", "done"}]_vars

\* The report is under way or done; a step_content event was delivered and a step
\* output collected; and a step has ended in the runtime after the loop left the
\* stream, with an output that no event reported.
C30_Witness ==
    /\ phase \in {"reporting", "completed"}
    /\ CountType("step_content") >= 1
    /\ stepOutputs # Empty
    /\ \E i \in Steps : /\ wf[i] = "completed"
                        /\ wfOutput[i] # Empty
                        /\ \A n \in DOMAIN out : ~(IsFinalStep(out[n]) /\ out[n].origin = i)

====
